---- MODULE Spec2Model ----
(***************************************************************************)
(* Model of src/src/app.pyw: the application loop of App.run, its         *)
(* background thread (App.background_updates / BackgroundUpdater.update), *)
(* the deferred command queue, frame pacing and the load/recovery path.   *)
(* Times are whole milliseconds.  Objects (Model instances and the        *)
(* condition each one owns) are identified by a natural number.           *)
(***************************************************************************)
EXTENDS Integers, Sequences, FiniteSets, TLC

\* ------------------------------------------------------------------ bounds
\* Frames of the application loop that are explored; the input poll of the
\* last explored frame is a quit request.
MaxFrames == 2
\* Commands the Controller appends over one run, at most.
MaxCmds == 2

\* --------------------------------------------------------- program constants
\* app.pyw:82  frame_duration < 0.16 (seconds), in milliseconds
FrameThresholdMs == 160
\* app.pyw:83  time.sleep(0.008), in milliseconds
SleepMs == 8
\* app.pyw:81  "60 fps = ~16 ms per frame", the documented target
TargetFrameMs == 16

\* Saved files the Loader reads without error, and files it fails on.
GoodFiles == {"plan.sav"}
BadFiles == {"bad.sav"}
Files == GoodFiles \cup BadFiles

\* Measured frame durations (end - start), in milliseconds.
Durations == {15, 16, 159, 160}

\* The kinds of Command the Controller can queue.  Every command carries the
\* same two fields; filename is "" when the kind takes none.
Commands ==
    {[op |-> "set_loading", filename |-> ""],
     [op |-> "update", filename |-> ""]}
    \cup {[op |-> "load", filename |-> f] : f \in Files}

\* All queues of at most n commands.
RECURSIVE Queues(_)
Queues(n) ==
    IF n = 0 THEN {<<>>}
    ELSE LET shorter == Queues(n - 1)
         IN shorter \cup {Append(q, c) : q \in {s \in shorter : Len(s) = n - 1},
                                         c \in Commands}

VARIABLES
    app,             \* the App: model, running, commands, and its Controller's
                     \* message_stack and loading flag
    pc,              \* position of the main thread
    bgpc,            \* position of the background thread
    condition,       \* the condition the background thread was started with
    lock,            \* set of <<condition, thread>>: who holds which lock
    frame,           \* number of frames begun
    frame_duration,  \* end - start of the current frame (-1: not measured)
    sleeps,          \* time.sleep calls of the current frame's pacing
    executed,        \* commands applied by the last execute_commands
    trace,           \* calls made by run(), in order
    result,          \* what run() returned ("none" before it returns)
    queued           \* number of commands the Controller has appended so far

vars == <<app, pc, bgpc, condition, lock, frame, frame_duration,
          sleeps, executed, trace, result, queued>>

NoCondition == -1
NotMeasured == -1

\* ------------------------------------------------------------ collaborators
\* model.Model(): a default-constructed Model that owns its own condition
\* update_background.  n is the identity of the new object.
Model(n) == [id |-> n, content |-> "default"]

\* The condition object model.update_background of a Model.
update_background(m) == m.id

\* tools.Loader(model, filename): populates the model in place, or fails after
\* having touched it.
Loader(m, filename) ==
    IF filename \in GoodFiles
    THEN [raised |-> FALSE, model |-> [m EXCEPT !.content = filename]]
    ELSE [raised |-> TRUE, model |-> [m EXCEPT !.content = "partial"]]

\* controller.message_stack.insert(message)
insert(stack, message) == Append(stack, message)

\* ------------------------------------------------------------ load_from_file
\* load_from_file without the reset of line 98: the Model the Loader touched
\* stays.
load_from_file_no_reset(a, filename) ==
    LET loader == Loader(a.model, filename)
    IN IF ~loader.raised
       THEN [app |-> [a EXCEPT
                         !.model = loader.model,
                         !.message_stack =
                             insert(@, <<"Loaded from save file: " \o filename>>)],
             raised |-> FALSE]
       ELSE [app |-> [a EXCEPT
                         !.message_stack =
                             insert(@, <<"Error loading save file: " \o filename>>),
                         !.model = loader.model],
             raised |-> FALSE]

\* load_from_file that loads into a new Model instead of the one the App holds.
load_from_file_new_model(a, filename) ==
    LET loader == Loader(Model(a.model.id + 1), filename)
    IN IF ~loader.raised
       THEN [app |-> [a EXCEPT
                         !.model = loader.model,
                         !.message_stack =
                             insert(@, <<"Loaded from save file: " \o filename>>)],
             raised |-> FALSE]
       ELSE [app |-> [a EXCEPT
                         !.message_stack =
                             insert(@, <<"Error loading save file: " \o filename>>),
                         !.model = Model(a.model.id + 2)],
             raised |-> FALSE]

\* app.pyw:85-98.  The result is the App after the call, and whether the call
\* left an exception for its caller.
load_from_file(a, filename) ==
    LET loader == Loader(a.model, filename)
    IN IF ~loader.raised
       THEN [app |-> [a EXCEPT
                         !.model = loader.model,
                         !.message_stack =
                             insert(@, <<"Loaded from save file: " \o filename>>)],
             raised |-> FALSE]
       ELSE [app |-> [a EXCEPT
                         !.message_stack =
                             insert(@, <<"Error loading save file: " \o filename>>),
                         !.model = Model(a.model.id + 1)],
             raised |-> FALSE]

\* ------------------------------------------------------------------ App()
\* App.__init__ up to line 25.
NewApp ==
    [model |-> Model(0), running |-> FALSE, commands |-> <<>>,
     message_stack |-> <<>>, loading |-> FALSE]

Init ==
    /\ app = NewApp
    /\ pc = "init"
    /\ bgpc = "unstarted"
    /\ condition = NoCondition
    /\ lock = {}
    /\ frame = 0
    /\ frame_duration = NotMeasured
    /\ sleeps = <<>>
    /\ executed = <<>>
    /\ trace = <<>>
    /\ result = "none"
    /\ queued = 0

\* App.__init__ line 28: if load: self.load_from_file(load)
Construct(load) ==
    /\ pc = "init"
    /\ LET loaded == IF load # "" THEN load_from_file(app, load)
                     ELSE [app |-> app, raised |-> FALSE]
       IN /\ app' = loaded.app
          /\ pc' = IF loaded.raised THEN "raised" ELSE "constructed"
    /\ UNCHANGED <<bgpc, condition, lock, frame, frame_duration,
                   sleeps, executed, trace, result, queued>>

\* ---------------------------------------------------------- the condition
\* The lock of condition c is held by nobody.
Free(c) == \A t \in {"main", "bg"} : <<c, t>> \notin lock

\* notify_all releasing the waiting thread whatever condition it waits on.
notify_all_any(cs) ==
    bgpc' = IF bgpc = "waiting" /\ cs # {} THEN "notified" ELSE bgpc

\* Condition.notify_all on each condition of cs: a background thread blocked
\* in wait on one of them is released from the wait (it still has to
\* re-acquire the lock before wait returns).
notify_all(cs) ==
    bgpc' = IF bgpc = "waiting" /\ condition \in cs THEN "notified" ELSE bgpc

\* -------------------------------------------------------- execute_commands
\* command.execute(app) for each kind of command.  st carries the App, the
\* commands applied so far, the conditions notified so far and whether an
\* exception is in flight.
execute(command, st) ==
    LET applied == [st EXCEPT !.executed = Append(@, command)]
    IN CASE command.op = "load" ->
              LET loaded == load_from_file(st.app, command.filename)
              IN [applied EXCEPT !.app = loaded.app, !.raised = loaded.raised]
         [] command.op = "set_loading" ->
              [applied EXCEPT !.app.loading = TRUE]
         [] command.op = "update" ->
              [applied EXCEPT
                  !.notifies = @ \cup {update_background(st.app.model)}]

\* The loop of lines 71-72 taking the queue from its end.
RECURSIVE for_each_command_reversed(_, _, _)
for_each_command_reversed(cmds, i, st) ==
    IF i > Len(cmds) \/ st.raised THEN st
    ELSE for_each_command_reversed(cmds, i + 1,
                                   execute(cmds[Len(cmds) + 1 - i], st))

\* app.pyw:71-72  for command in self.commands: command.execute(self)
RECURSIVE for_each_command(_, _, _)
for_each_command(cmds, i, st) ==
    IF i > Len(cmds) \/ st.raised THEN st
    ELSE for_each_command(cmds, i + 1, execute(cmds[i], st))

\* execute_commands without the clear of line 74.
execute_commands_no_clear(a) ==
    LET st == for_each_command(a.commands, 1,
                  [app |-> a, executed |-> <<>>, notifies |-> {},
                   raised |-> FALSE])
    IN IF st.raised THEN st
       ELSE [st EXCEPT !.app.loading = FALSE]

\* execute_commands clearing the loading flag before it runs the commands.
execute_commands_clear_first(a) ==
    LET st == for_each_command(a.commands, 1,
                  [app |-> [a EXCEPT !.loading = FALSE], executed |-> <<>>,
                   notifies |-> {}, raised |-> FALSE])
    IN IF st.raised THEN st
       ELSE [st EXCEPT !.app.commands = <<>>]

\* app.pyw:69-75
execute_commands(a) ==
    LET st == for_each_command(a.commands, 1,
                  [app |-> a, executed |-> <<>>, notifies |-> {},
                   raised |-> FALSE])
    IN IF st.raised THEN st
       ELSE [st EXCEPT !.app.commands = <<>>, !.app.loading = FALSE]

\* ---------------------------------------------------------- cap_frame_rate
\* cap_frame_rate sleeping for what is left of the threshold, and also at it.
cap_frame_rate_remaining(duration) ==
    IF duration <= FrameThresholdMs
    THEN <<FrameThresholdMs - duration>>
    ELSE <<>>

\* app.pyw:77-83: the time.sleep calls made for a frame of the given duration.
cap_frame_rate(duration) ==
    IF duration < FrameThresholdMs THEN <<SleepMs>> ELSE <<>>

\* ------------------------------------------------------------- main thread
\* app.pyw:34  self.running = True
RunStart ==
    /\ pc = "constructed"
    /\ pc' = "start_thread"
    /\ app' = [app EXCEPT !.running = TRUE]
    /\ UNCHANGED <<bgpc, condition, lock, frame, frame_duration, sleeps,
                   executed, trace, result, queued>>

\* app.pyw:37-40  the thread is created with the condition of the Model the
\* App holds now, and started.
StartThread ==
    /\ pc = "start_thread"
    /\ pc' = "loop"
    /\ condition' = update_background(app.model)
    /\ bgpc' = "check"
    /\ trace' = Append(trace, "background_thread.start")
    /\ UNCHANGED <<app, lock, frame, frame_duration, sleeps, executed, result,
                   queued>>

\* The loop of line 42 entering its body without looking at running.
LoopCheck_ignores_running ==
    /\ pc = "loop"
    /\ IF frame < MaxFrames
       THEN /\ pc' = "handle_input"
            /\ frame' = frame + 1
            /\ frame_duration' = NotMeasured
            /\ sleeps' = <<>>
            /\ executed' = <<>>
       ELSE /\ pc' = "view_exit"
            /\ UNCHANGED <<frame, frame_duration, sleeps, executed>>
    /\ UNCHANGED <<app, bgpc, condition, lock, trace, result, queued>>

\* app.pyw:42-43  while self.running: start = time.time()
LoopCheck ==
    /\ pc = "loop"
    /\ IF app.running
       THEN /\ pc' = "handle_input"
            /\ frame' = frame + 1
            /\ frame_duration' = NotMeasured
            /\ sleeps' = <<>>
            /\ executed' = <<>>
       ELSE /\ pc' = "view_exit"
            /\ UNCHANGED <<frame, frame_duration, sleeps, executed>>
    /\ UNCHANGED <<app, bgpc, condition, lock, trace, result, queued>>

\* The input poll leaving the loop at once when the Controller asks to stop.
HandleInput_breaks(keep, cmds, loading) ==
    /\ pc = "handle_input"
    /\ pc' = IF keep THEN "view_update" ELSE "loop"
    /\ app' = [app EXCEPT !.running = keep,
                          !.commands = @ \o cmds,
                          !.loading = loading]
    /\ trace' = trace \o <<"get_screen_dimensions", "handle_input">>
                      \o (IF keep THEN <<>> ELSE <<"running=False">>)
    /\ queued' = queued + Len(cmds)
    /\ UNCHANGED <<bgpc, condition, lock, frame, frame_duration, sleeps,
                   executed, result>>

\* The input poll followed directly by execute_commands, without the render.
HandleInput_skip_render(keep, cmds, loading) ==
    /\ pc = "handle_input"
    /\ pc' = "execute_commands"
    /\ app' = [app EXCEPT !.running = keep,
                          !.commands = @ \o cmds,
                          !.loading = loading]
    /\ trace' = trace \o <<"get_screen_dimensions", "handle_input">>
                      \o (IF keep THEN <<>> ELSE <<"running=False">>)
    /\ queued' = queued + Len(cmds)
    /\ UNCHANGED <<bgpc, condition, lock, frame, frame_duration, sleeps,
                   executed, result>>

\* app.pyw:45-46  the Controller appends cmds to the queue, may set its loading
\* flag, and returns whether to keep running.
HandleInput(keep, cmds, loading) ==
    /\ pc = "handle_input"
    /\ pc' = "view_update"
    /\ app' = [app EXCEPT !.running = keep,
                          !.commands = @ \o cmds,
                          !.loading = loading]
    /\ trace' = trace \o <<"get_screen_dimensions", "handle_input">>
                      \o (IF keep THEN <<>> ELSE <<"running=False">>)
    /\ queued' = queued + Len(cmds)
    /\ UNCHANGED <<bgpc, condition, lock, frame, frame_duration, sleeps,
                   executed, result>>

\* app.pyw:47  self.view.update(self.model, self.controller)
ViewUpdate ==
    /\ pc = "view_update"
    /\ pc' = "execute_commands"
    /\ trace' = Append(trace, "view.update")
    /\ UNCHANGED <<app, bgpc, condition, lock, frame, frame_duration, sleeps,
                   executed, result, queued>>

\* app.pyw:48  self.execute_commands()
ExecuteCommands ==
    /\ pc = "execute_commands"
    /\ LET st == execute_commands(app)
       IN /\ \A c \in st.notifies : Free(c)
          /\ app' = st.app
          /\ executed' = st.executed
          /\ notify_all(st.notifies)
          /\ pc' = IF st.raised THEN "raised" ELSE "cap_frame_rate"
    /\ trace' = Append(trace, "execute_commands")
    /\ UNCHANGED <<condition, lock, frame, frame_duration, sleeps, result,
                   queued>>

\* app.pyw:50-51  end = time.time(); self.cap_frame_rate(end - start)
CapFrameRate(duration) ==
    /\ pc = "cap_frame_rate"
    /\ pc' = "loop"
    /\ frame_duration' = duration
    /\ sleeps' = cap_frame_rate(duration)
    /\ trace' = Append(trace, "cap_frame_rate")
    /\ UNCHANGED <<app, bgpc, condition, lock, frame, executed, result, queued>>

\* view.exit followed by another render instead of the shutdown.
ViewExit_rerender ==
    /\ pc = "view_exit"
    /\ pc' = "view_update"
    /\ trace' = Append(trace, "view.exit")
    /\ UNCHANGED <<app, bgpc, condition, lock, frame, frame_duration, sleeps,
                   executed, result, queued>>

\* view.exit followed directly by the join, without the notify of line 54.
ViewExit_no_notify ==
    /\ pc = "view_exit"
    /\ pc' = "join"
    /\ trace' = Append(trace, "view.exit")
    /\ UNCHANGED <<app, bgpc, condition, lock, frame, frame_duration, sleeps,
                   executed, result, queued>>

\* app.pyw:53  self.view.exit()
ViewExit ==
    /\ pc = "view_exit"
    /\ pc' = "notify_acquire"
    /\ trace' = Append(trace, "view.exit")
    /\ UNCHANGED <<app, bgpc, condition, lock, frame, frame_duration, sleeps,
                   executed, result, queued>>

\* app.pyw:104  with self.model.update_background:
NotifyAcquire ==
    /\ pc = "notify_acquire"
    /\ Free(update_background(app.model))
    /\ lock' = lock \cup {<<update_background(app.model), "main">>}
    /\ pc' = "notify_all"
    /\ UNCHANGED <<app, bgpc, condition, frame, frame_duration, sleeps,
                   executed, trace, result, queued>>

\* app.pyw:105  self.model.update_background.notify_all()
NotifyAll ==
    /\ pc = "notify_all"
    /\ notify_all({update_background(app.model)})
    /\ pc' = "notify_release"
    /\ trace' = Append(trace, "notify_all")
    /\ UNCHANGED <<app, condition, lock, frame, frame_duration, sleeps,
                   executed, result, queued>>

\* app.pyw:104  leaving the with block releases the lock
NotifyRelease ==
    /\ pc = "notify_release"
    /\ lock' = lock \ {<<update_background(app.model), "main">>}
    /\ pc' = "join"
    /\ UNCHANGED <<app, bgpc, condition, frame, frame_duration, sleeps,
                   executed, trace, result, queued>>

\* A join that returns although the thread has not exited.
Join_no_wait ==
    /\ pc = "join"
    /\ pc' = "return"
    /\ trace' = Append(trace, "join")
    /\ UNCHANGED <<app, bgpc, condition, lock, frame, frame_duration, sleeps,
                   executed, result, queued>>

\* app.pyw:55  background_thread.join()
Join ==
    /\ pc = "join"
    /\ bgpc = "exited"
    /\ pc' = "return"
    /\ trace' = Append(trace, "join")
    /\ UNCHANGED <<app, bgpc, condition, lock, frame, frame_duration, sleeps,
                   executed, result, queued>>

\* app.pyw:56  return True
Return ==
    /\ pc = "return"
    /\ pc' = "done"
    /\ result' = "True"
    /\ UNCHANGED <<app, bgpc, condition, lock, frame, frame_duration, sleeps,
                   executed, trace, queued>>

\* ------------------------------------------------------- background thread
\* app.pyw:66  while app.running:
BgCheck ==
    /\ bgpc = "check"
    /\ bgpc' = IF app.running THEN "acquire" ELSE "exited"
    /\ UNCHANGED <<app, pc, condition, lock, frame, frame_duration, sleeps,
                   executed, trace, result, queued>>

\* app.pyw:113  with condition:
BgAcquire ==
    /\ bgpc = "acquire"
    /\ Free(condition)
    /\ lock' = lock \cup {<<condition, "bg">>}
    /\ bgpc' = "locked"
    /\ UNCHANGED <<app, pc, condition, frame, frame_duration, sleeps,
                   executed, trace, result, queued>>

\* A wait that blocks without releasing the lock.
BgWait_keeps_lock ==
    /\ bgpc = "locked"
    /\ bgpc' = "waiting"
    /\ UNCHANGED <<app, pc, condition, lock, frame, frame_duration, sleeps,
                   executed, trace, result, queued>>

\* app.pyw:114  condition.wait(): release the lock and block
BgWait ==
    /\ bgpc = "locked"
    /\ lock' = lock \ {<<condition, "bg">>}
    /\ bgpc' = "waiting"
    /\ UNCHANGED <<app, pc, condition, frame, frame_duration, sleeps,
                   executed, trace, result, queued>>

\* condition.wait() that also returns by itself, as a wait with a timeout.
BgWake_timeout ==
    /\ bgpc \in {"waiting", "notified"}
    /\ Free(condition)
    /\ lock' = lock \cup {<<condition, "bg">>}
    /\ bgpc' = "woken"
    /\ UNCHANGED <<app, pc, condition, frame, frame_duration, sleeps,
                   executed, trace, result, queued>>

\* app.pyw:114  condition.wait() after a notify: re-acquire the lock, return
BgWake ==
    /\ bgpc = "notified"
    /\ Free(condition)
    /\ lock' = lock \cup {<<condition, "bg">>}
    /\ bgpc' = "woken"
    /\ UNCHANGED <<app, pc, condition, frame, frame_duration, sleeps,
                   executed, trace, result, queued>>

\* The thread ending after its first update instead of testing running again.
BgRelease_exits ==
    /\ bgpc = "woken"
    /\ lock' = lock \ {<<condition, "bg">>}
    /\ bgpc' = "exited"
    /\ UNCHANGED <<app, pc, condition, frame, frame_duration, sleeps,
                   executed, trace, result, queued>>

\* app.pyw:113  leaving the with block releases the lock; back to line 66
BgRelease ==
    /\ bgpc = "woken"
    /\ lock' = lock \ {<<condition, "bg">>}
    /\ bgpc' = "check"
    /\ UNCHANGED <<app, pc, condition, frame, frame_duration, sleeps,
                   executed, trace, result, queued>>

\* ------------------------------------------------------------ specification
MainThread ==
    \/ \E load \in {""} \cup Files : Construct(load)
    \/ RunStart
    \/ StartThread
    \/ LoopCheck
    \/ \E keep \in (IF frame < MaxFrames THEN BOOLEAN ELSE {FALSE}),
          cmds \in Queues(MaxCmds - queued), loading \in BOOLEAN :
          HandleInput(keep, cmds, loading)
    \/ ViewUpdate
    \/ ExecuteCommands
    \/ \E duration \in Durations : CapFrameRate(duration)
    \/ ViewExit
    \/ NotifyAcquire
    \/ NotifyAll
    \/ NotifyRelease
    \/ Join
    \/ Return

BackgroundThread ==
    \/ BgCheck
    \/ BgAcquire
    \/ BgWait
    \/ BgWake
    \/ BgRelease

Next == MainThread \/ BackgroundThread

Spec == Init /\ [][Next]_vars

\* The variant of run() that omits the notify step of line 54: view.exit is
\* followed directly by the join.
RunWithoutNotify ==
    /\ pc = "view_exit"
    /\ pc' = "join"
    /\ trace' = Append(trace, "view.exit")
    /\ UNCHANGED <<app, bgpc, condition, lock, frame, frame_duration, sleeps,
                   executed, result, queued>>

\* run() as it is, or its variant without the notify step.
NextVariant == Next \/ RunWithoutNotify

VariantSpec == Init /\ [][NextVariant]_vars

\* Both threads are scheduled fairly: a thread that can take a step
\* eventually takes one.
FairSpec == Spec /\ WF_vars(MainThread) /\ WF_vars(BackgroundThread)
\* ================================================================== claims
\* run() has been entered and running has been cleared by an input poll.
StopRequested == pc \notin {"init", "constructed", "raised"} /\ ~app.running

\* The calls of the shutdown sequence, as run() made them.
ShutdownSteps == <<"running=False", "view.exit", "notify_all", "join">>
ShutdownEvents ==
    SelectSeq(trace, LAMBDA e : e \in {ShutdownSteps[i] : i \in 1..4})

\* s is an initial segment of t.
IsPrefix(s, t) == Len(s) <= Len(t) /\ \A i \in 1..Len(s) : s[i] = t[i]

\* C1: under fair scheduling of both threads, once handle_input has returned
\* false the background thread eventually exits, the join completes and
\* run() returns True.
C1_ShutdownTerminates ==
    StopRequested ~> (pc = "done" /\ result = "True" /\ bgpc = "exited")

\* C2: when notify_background_thread issues notify_all, the condition it
\* notifies is the condition the background thread was started with.
C2_NotifiesBoundCondition ==
    pc = "notify_all" => update_background(app.model) = condition

\* C3: a shutdown performs the write running = False, view.exit, one
\* notify_all on the Model's condition and the join, in this order and each
\* once; the join is not reached before the notify, and the notify does not
\* precede the write that cleared running.
C3_ShutdownOrder ==
    /\ IsPrefix(ShutdownEvents, ShutdownSteps)
    /\ pc = "notify_all" =>
          /\ ~app.running
          /\ <<update_background(app.model), "main">> \in lock
    /\ pc \in {"join", "return", "done"} =>
          IsPrefix(SubSeq(ShutdownSteps, 1, 3), ShutdownEvents)
    /\ pc \in {"return", "done"} => ShutdownEvents = ShutdownSteps

C3_Witness == pc = "done" /\ ShutdownEvents = ShutdownSteps /\ frame = MaxFrames

\* C4: the command queue is empty immediately before handle_input and
\* immediately after execute_commands of every frame; it is non-empty only
\* between the input poll and the end of execute_commands of one frame.
C4_QueueEmptyAtFrameBounds ==
    /\ pc \in {"handle_input", "cap_frame_rate"} => app.commands = <<>>
    /\ app.commands # <<>> => pc \in {"view_update", "execute_commands"}

C4_Witness ==
    pc = "cap_frame_rate" /\ frame = MaxFrames /\ Len(executed) = MaxCmds
\* C5: during one call of run(), running changes only from true to false
\* after line 34 set it, never back, and once it is false no further frame
\* is begun (the loop body is not entered again).
C5_RunningOnlyClears ==
    [][/\ app'.running # app.running =>
              (pc = "constructed" \/ (app.running /\ ~app'.running))
       /\ StopRequested =>
              (~app'.running /\ pc' # "handle_input" /\ frame' = frame)]_vars

C5_Witness == pc = "view_exit" /\ ~app.running /\ frame = 1

\* The four steps of a frame, and the steps run() has made so far.
FrameSteps ==
    <<"handle_input", "view.update", "execute_commands", "cap_frame_rate">>
FrameEvents ==
    SelectSeq(trace, LAMBDA e : e \in {FrameSteps[i] : i \in 1..4})

\* Steps of the current frame that are complete at each position of run().
StepsDone ==
    CASE pc = "handle_input" -> 0
      [] pc = "view_update" -> 1
      [] pc = "execute_commands" -> 2
      [] pc = "cap_frame_rate" -> 3
      [] OTHER -> 4

\* C6: every frame makes the four steps input poll, render, command
\* execution, pacing in this order, each once, and the command execution of
\* a frame is complete before the input poll of the next frame.
C6_FrameOrder ==
    /\ \A i \in 1..Len(FrameEvents) :
          FrameEvents[i] = FrameSteps[((i - 1) % 4) + 1]
    /\ Len(FrameEvents) = IF frame = 0 THEN 0 ELSE 4 * (frame - 1) + StepsDone

C6_Witness ==
    pc = "view_exit" /\ frame = MaxFrames /\ Len(FrameEvents) = 4 * MaxFrames

\* The messages load_from_file is to leave for the load commands of queue q,
\* in the order of the queue.
ExpectedMessages(q) ==
    LET loads == SelectSeq(q, LAMBDA c : c.op = "load")
    IN [i \in 1..Len(loads) |->
           IF loads[i].filename \in GoodFiles
           THEN <<"Loaded from save file: " \o loads[i].filename>>
           ELSE <<"Error loading save file: " \o loads[i].filename>>]

\* C7: execute_commands applies every queued command once, in insertion
\* order, and leaves the queue empty and controller.loading false.
C7_ExecutesQueueInOrder ==
    [][pc = "execute_commands" /\ pc' # pc =>
          /\ executed' = app.commands
          /\ app'.message_stack =
                 app.message_stack \o ExpectedMessages(app.commands)
          /\ app'.commands = <<>>
          /\ app'.loading = FALSE
          /\ pc' = "cap_frame_rate"]_vars

C7_Witness ==
    /\ pc = "cap_frame_rate"
    /\ Len(executed) = MaxCmds
    /\ executed[1] = [op |-> "load", filename |-> "bad.sav"]
    /\ executed[Len(executed)] = [op |-> "load", filename |-> "plan.sav"]

\* C8: when the Loader fails, load_from_file leaves the App with a fresh
\* default Model (not the one the Loader touched), adds the one message
\* 'Error loading save file: <filename>' and no other, raises nothing to its
\* caller, and leaves running and the command queue as they were.
C8_LoadFailureResets ==
    \A f \in BadFiles :
        LET after == load_from_file(app, f)
        IN /\ ~after.raised
           /\ after.app.model.content = "default"
           /\ after.app.model.id \notin 0..app.model.id
           /\ after.app.message_stack =
                  Append(app.message_stack, <<"Error loading save file: " \o f>>)
           /\ after.app.running = app.running
           /\ after.app.commands = app.commands
           /\ after.app.loading = app.loading

C8_Witness ==
    /\ pc = "cap_frame_rate"
    /\ app.running
    /\ executed # <<>>
    /\ executed[Len(executed)] = [op |-> "load", filename |-> "bad.sav"]
    /\ app.model.content = "default"
    /\ app.model.id > 0
    /\ app.message_stack[Len(app.message_stack)] =
           <<"Error loading save file: bad.sav">>

\* C9: when the Loader succeeds, load_from_file keeps the same Model object,
\* populated from the file, and adds the one message
\* 'Loaded from save file: <filename>' and no other.
C9_LoadSuccessKeepsModel ==
    \A f \in GoodFiles :
        LET after == load_from_file(app, f)
        IN /\ ~after.raised
           /\ after.app.model.id = app.model.id
           /\ after.app.model.content = f
           /\ after.app.message_stack =
                  Append(app.message_stack, <<"Loaded from save file: " \o f>>)

C9_Witness ==
    /\ pc = "cap_frame_rate"
    /\ executed # <<>>
    /\ executed[Len(executed)] = [op |-> "load", filename |-> "plan.sav"]
    /\ app.model.content = "plan.sav"
    /\ app.model.id = condition
    /\ app.message_stack[Len(app.message_stack)] =
           <<"Loaded from save file: plan.sav">>

\* C10: a frame whose measured duration is below 16 ms is followed by one
\* sleep of 8 ms, and a frame of 16 ms or more by no sleep.
C10_SleepsBelowTarget ==
    (pc = "loop" /\ frame_duration # NotMeasured) =>
        sleeps = IF frame_duration < TargetFrameMs THEN <<SleepMs>> ELSE <<>>
\* C11: for a measured frame duration d, cap_frame_rate sleeps once, for
\* 0.008 s, if d < 0.16 s and does not sleep if d >= 0.16 s; the sleep depends
\* on nothing but whether d is under the threshold of this frame.
C11_SleepsBelowThreshold ==
    (pc = "loop" /\ frame_duration # NotMeasured) =>
        sleeps = IF frame_duration < 160 THEN <<8>> ELSE <<>>

C11_Witness ==
    /\ pc = "loop"
    /\ frame = MaxFrames
    /\ frame_duration = 159
    /\ sleeps = <<8>>

\* The step being taken issues notify_all on condition c: the shutdown
\* notify of line 105, or a command that makes the Model notify.
NotifyIssuedOn(c) ==
    \/ pc = "notify_all" /\ pc' = "notify_release"
          /\ update_background(app.model) = c
    \/ pc = "execute_commands" /\ pc' # pc
          /\ c \in execute_commands(app).notifies

\* C12: a background thread blocked in condition.wait stays blocked until
\* a notify is issued on that condition (no other step of either thread
\* ends the wait), and a notify_all on it releases the waiting thread, whose
\* wait then returns once.
C12_WaitEndsOnlyByNotify ==
    [][/\ (bgpc = "waiting" /\ bgpc' # "waiting") =>
              (bgpc' = "notified" /\ NotifyIssuedOn(condition))
       /\ (bgpc = "waiting" /\ NotifyIssuedOn(condition)) => bgpc' = "notified"
       /\ (bgpc = "notified" /\ bgpc' # bgpc) => bgpc' = "woken"
       /\ (bgpc = "woken" /\ bgpc' # bgpc) => bgpc' = "check"]_vars

C12_Witness ==
    /\ bgpc = "notified"
    /\ pc = "notify_release"
    /\ update_background(app.model) = condition
\* The shutdown notify of line 105 has been issued.
ShutdownNotified == \E i \in 1..Len(trace) : trace[i] = "notify_all"

\* C13: clearing running does not wake a background thread blocked in wait:
\* the thread stays blocked until notify_all is issued on its condition, and
\* when run() reaches the join without the notify step, the join never
\* completes for such a thread.
C13_ClearingRunningDoesNotWake ==
    [][/\ (app.running /\ ~app'.running /\ bgpc = "waiting") =>
              bgpc' = "waiting"
       /\ (StopRequested /\ bgpc = "waiting" /\ bgpc' # "waiting") =>
              NotifyIssuedOn(condition)
       /\ (pc = "join" /\ bgpc = "waiting" /\ ~ShutdownNotified) =>
              (pc' = "join" /\ bgpc' = "waiting")]_vars

C13_Witness ==
    /\ pc = "join"
    /\ bgpc = "waiting"
    /\ ~ShutdownNotified
    /\ update_background(app.model) = condition
    /\ ~app.running
\* Number of threads run() has started.
ThreadsStarted ==
    Cardinality({i \in 1..Len(trace) : trace[i] = "background_thread.start"})

\* C14: one call of run() starts exactly one background thread, before the
\* first frame, and returns only after that thread has exited; no background
\* thread is alive once run() has returned.
C14_OneThreadJoinedBeforeReturn ==
    /\ ThreadsStarted = IF pc \in {"init", "constructed", "start_thread"}
                        THEN 0 ELSE 1
    /\ bgpc = "unstarted" <=> ThreadsStarted = 0
    /\ frame > 0 => trace[1] = "background_thread.start"
    /\ pc \in {"return", "done"} => bgpc = "exited"
    /\ result = "True" => bgpc = "exited"

C14_Witness ==
    /\ pc = "done"
    /\ result = "True"
    /\ bgpc = "exited"
    /\ ThreadsStarted = 1
    /\ frame = MaxFrames
\* Threads that hold the lock of condition c.
Holders(c) == {t \in {"main", "bg"} : <<c, t>> \in lock}

\* C15: the lock of the Model's condition is held by at most one thread at a
\* time; the background thread holds it only inside BackgroundUpdater.update
\* (not while blocked in wait, not when it re-checks running, not after it
\* exited), the main thread only while issuing notify_all, and the main
\* thread eventually acquires it when it comes to notify.
C15_LockDiscipline ==
    /\ [](/\ \A h \in lock : Cardinality(Holders(h[1])) = 1
          /\ \A h \in lock : h[2] = "bg" =>
                 (h[1] = condition /\ bgpc \in {"locked", "woken"})
          /\ bgpc \in {"locked", "woken"} => <<condition, "bg">> \in lock
          /\ \A h \in lock : h[2] = "main" =>
                 /\ h[1] = update_background(app.model)
                 /\ pc \in {"notify_all", "notify_release"}
          /\ pc \in {"notify_all", "notify_release"} =>
                 <<update_background(app.model), "main">> \in lock)
    /\ (pc = "notify_acquire" ~> pc = "notify_all")

C15_Witness ==
    /\ pc = "notify_all"
    /\ bgpc = "waiting"
    /\ update_background(app.model) = condition
    /\ lock = {<<condition, "main">>}
\* C16: the background thread tests running only at the top of its loop (at
\* thread start and after a wait has returned): from a test that sees running
\* true, and so after a wake-up while running is true, it goes into a new
\* wait; it leaves the loop only at a test that sees running false, and so
\* has not exited while running is true.
C16_ExitsOnlyAtLoopTest ==
    /\ [](bgpc = "exited" => ~app.running)
    /\ [][/\ (bgpc' = "exited" /\ bgpc # "exited") =>
                 (bgpc = "check" /\ ~app.running)
          /\ (bgpc = "check" /\ app.running /\ bgpc' # bgpc) =>
                 bgpc' = "acquire"
          /\ (bgpc = "acquire" /\ bgpc' # bgpc) => bgpc' = "locked"
          /\ (bgpc = "locked" /\ bgpc' # bgpc) => bgpc' = "waiting"
          /\ (bgpc = "woken" /\ bgpc' # bgpc) => bgpc' = "check"]_vars

C16_Witness ==
    /\ bgpc = "woken"
    /\ app.running
    /\ pc = "handle_input"
    /\ frame = MaxFrames
\* C17: controller.loading is false at the end of every frame, after
\* execute_commands, whatever handle_input or a command set it to; only
\* execute_commands clears it, after the commands of the frame have run.
C17_LoadingClearedEachFrame ==
    /\ [](app.loading => pc \in {"view_update", "execute_commands"})
    /\ [][/\ (pc = "execute_commands" /\ pc' # pc) => ~app'.loading
          /\ (app.loading /\ ~app'.loading) =>
                 (pc = "execute_commands" /\ pc' = "cap_frame_rate"
                     /\ executed' = app.commands)]_vars

C17_Witness ==
    /\ pc = "cap_frame_rate"
    /\ ~app.loading
    /\ executed # <<>>
    /\ executed[Len(executed)] = [op |-> "set_loading", filename |-> ""]
    /\ frame = MaxFrames
\* What run() does after the input poll that cleared running.
FinalSteps ==
    <<"view.update", "execute_commands", "cap_frame_rate",
      "view.exit", "notify_all", "join">>

\* The calls of trace after position i.
After(i) == SubSeq(trace, i + 1, Len(trace))

\* C18: the frame in which handle_input returns false is completed: after
\* running was cleared, the render, execute_commands (with the commands of
\* that last poll) and cap_frame_rate of the frame run, in this order, before
\* view.exit, and the queue is empty when run() returns.
C18_FinalFrameCompleted ==
    /\ [](/\ \A i \in 1..Len(trace) :
                 trace[i] = "running=False" => IsPrefix(After(i), FinalSteps)
          /\ pc \in {"view_exit", "notify_acquire", "notify_all",
                     "notify_release", "join"} =>
                 \E i \in 1..Len(trace) :
                     /\ trace[i] = "running=False"
                     /\ IsPrefix(SubSeq(FinalSteps, 1, 3), After(i))
          /\ pc \in {"return", "done"} => app.commands = <<>>)
    /\ [][(pc = "execute_commands" /\ ~app.running /\ pc' # pc) =>
              (executed' = app.commands /\ app'.commands = <<>>)]_vars

C18_Witness ==
    /\ pc = "done"
    /\ ~app.running
    /\ Len(executed) = MaxCmds
    /\ app.commands = <<>>

\* The calls run() must not make once the View is torn down.
FrameCalls ==
    {"get_screen_dimensions", "handle_input", "view.update",
     "execute_commands", "view.exit"}

\* Number of view.exit calls run() has made.
ViewExits == Cardinality({i \in 1..Len(trace) : trace[i] = "view.exit"})

\* C19: view.exit is called once per run, after the last frame: once it has
\* been called, run() makes no call of view.update, get_screen_dimensions,
\* handle_input or execute_commands, and no second view.exit.
C19_TeardownOnceAfterLastFrame ==
    /\ \A i \in 1..Len(trace) :
          trace[i] = "view.exit" =>
              /\ \A j \in (i + 1)..Len(trace) : trace[j] \notin FrameCalls
              /\ Len(SelectSeq(SubSeq(trace, 1, i),
                               LAMBDA e : e = "handle_input")) = frame
              /\ i > 1 /\ trace[i - 1] = "cap_frame_rate"
    /\ ViewExits = IF pc \in {"notify_acquire", "notify_all", "notify_release",
                              "join", "return", "done"}
                   THEN 1 ELSE 0

C19_Witness ==
    /\ pc = "done"
    /\ ViewExits = 1
    /\ frame = MaxFrames
====
